---- MODULE Spec2Model ----
(***************************************************************************)
(* Appointment booking core of doctor-appointment-backend:                 *)
(* AppointmentService (book / status / cancel / reschedule),               *)
(* DoctorService (create / update / delete), the Appointment schema        *)
(* (validation, pre-save hook, partial unique index), the dispatch of      *)
(* notifications to EmailService and the controllers' mapping of thrown    *)
(* errors to HTTP status codes.                                            *)
(*                                                                         *)
(* Every `await` on the database is a separate step of a request, so       *)
(* requests handled by different processes interleave at those points.     *)
(* Instants are minutes since midnight (UTC) of day 0; the server runs in  *)
(* UTC, so local midnight and UTC midnight coincide.                       *)
(***************************************************************************)
EXTENDS Integers, Sequences, FiniteSets, TLC

VARIABLES doctors, appts, now, pcs, last, served

vars == <<doctors, appts, now, pcs, last, served>>

\* ------------------------------------------------------------- bounds ----
MaxAppts == 2                       \* appointment documents the store may hold
MaxServed == 4                      \* requests served in one run

Procs == {"p1", "p2"}               \* concurrently served requests
Users == {"u1", "u2"}
Roles == {"user", "admin"}
DoctorIds == {"d1", "d2"}
ApptIds == 1..MaxAppts

NULL == "null"                      \* undefined string field
NoDate == -1                        \* undefined Date field
NoDoc == [none |-> TRUE]            \* no document under that _id
NaN == -2                           \* Number() of a non-numeric string

MinutesPerDay == 1440

\* ------------------------------------------------------ time strings ----
\* A time string is the sequence of its characters.
T0859 == <<"0", "8", ":", "5", "9">>
T0900 == <<"0", "9", ":", "0", "0">>
T900 == <<"9", ":", "0", "0">>
T1000 == <<"1", "0", ":", "0", "0">>
T1100 == <<"1", "1", ":", "0", "0">>
T1200 == <<"1", "2", ":", "0", "0">>
T1659 == <<"1", "6", ":", "5", "9">>
T1700 == <<"1", "7", ":", "0", "0">>
T2500 == <<"2", "5", ":", "0", "0">>

Digits == <<"0", "1", "2", "3", "4", "5", "6", "7", "8", "9">>

IsDigit(c) == \E i \in 1..10 : Digits[i] = c

DigitVal(c) == (CHOOSE i \in 1..10 : Digits[i] = c) - 1

\* String.prototype.split on a one-character separator
RECURSIVE Split(_, _)
Split(s, sep) ==
  IF \A i \in 1..Len(s) : s[i] # sep
    THEN <<s>>
    ELSE LET k == CHOOSE i \in 1..Len(s) :
                     s[i] = sep /\ \A j \in 1..(i - 1) : s[j] # sep
         IN  <<SubSeq(s, 1, k - 1)>> \o Split(SubSeq(s, k + 1, Len(s)), sep)

\* Number(string) for the strings split produces: "" is 0, digits are their
\* decimal value, anything else is NaN
RECURSIVE DecVal(_)
DecVal(s) ==
  IF Len(s) = 0 THEN 0
  ELSE 10 * DecVal(SubSeq(s, 1, Len(s) - 1)) + DigitVal(s[Len(s)])

Number(s) == IF \A i \in 1..Len(s) : IsDigit(s[i]) THEN DecVal(s) ELSE NaN

parseTime(timeString) ==
  LET parts   == Split(timeString, ":")
      hours   == Number(parts[1])
      minutes == IF Len(parts) >= 2 THEN Number(parts[2]) ELSE NaN
  IN  IF hours = NaN \/ minutes = NaN THEN NaN ELSE hours * 60 + minutes

\* /^([01]?[0-9]|2[0-3]):[0-5][0-9]$/
TimeFormatOk(s) ==
  LET parts == Split(s, ":")
  IN  /\ Len(parts) = 2
      /\ LET h == parts[1]
             m == parts[2]
         IN  /\ \/ Len(h) = 1 /\ IsDigit(h[1])
                \/ Len(h) = 2 /\ h[1] \in {"0", "1"} /\ IsDigit(h[2])
                \/ Len(h) = 2 /\ h[1] = "2" /\ h[2] \in {"0", "1", "2", "3"}
             /\ Len(m) = 2
             /\ m[1] \in {"0", "1", "2", "3", "4", "5"}
             /\ IsDigit(m[2])

\* comparisons with NaN are false
NumGe(a, b) == a # NaN /\ b # NaN /\ a >= b
NumLt(a, b) == a # NaN /\ b # NaN /\ a < b

\* --------------------------------------------------------- calendar ----
WeekDays == <<"Sunday", "Monday", "Tuesday", "Wednesday", "Thursday",
              "Friday", "Saturday">>

\* new Date("YYYY-MM-DD") is UTC midnight of that day; day 0 is a Sunday
DateOf(day) == day * MinutesPerDay

\* toLocaleDateString('en-US', { weekday: 'long' })
DayOfWeek(date) == WeekDays[((date \div MinutesPerDay) % 7) + 1]

\* today.setHours(0, 0, 0, 0)
StartOfDay(t) == (t \div MinutesPerDay) * MinutesPerDay

\* ----------------------------------------------------------- errors ----
MsgOk == "ok"
MsgRequestInvalid == "Validation failed"
MsgDoctorNotFound == "Doctor not found"
MsgDoctorInactive == "Doctor is not available"
MsgDoctorClosed == "Doctor is not available at the requested time"
MsgSlotBooked == "Time slot is already booked"
MsgApptNotFound == "Appointment not found"
MsgAccessDenied == "Access denied"
MsgCannotCancel ==
  "Appointment cannot be cancelled (must be at least 24 hours before appointment time)"
MsgOnlyActiveCancel == "Only pending or confirmed appointments can be cancelled"
MsgOnlyActiveResched == "Only pending or confirmed appointments can be rescheduled"
MsgNewSlotBooked == "New time slot is already booked"
MsgDoctorClosedNew == "Doctor is not available at the new requested time"
MsgHasActive == "Cannot delete doctor with active appointments"
\* `Cannot change status from ${appointment.status} to ${status}`
MsgBadTransition == "Cannot change status from <current> to <requested>"
\* thrown by the driver / the ODM, not by the services
MsgDuplicateKey == "E11000 duplicate key error collection: appointments"
MsgSchemaInvalid == "Appointment validation failed"
MsgDoctorExists == "Doctor with this email already exists"

\* error.message.includes(sub), for the substrings the controllers look for
Includes(msg, sub) ==
  CASE sub = "not found" ->
         msg \in {MsgDoctorNotFound, MsgApptNotFound}
    [] sub = "not available" ->
         msg \in {MsgDoctorInactive, MsgDoctorClosed, MsgDoctorClosedNew}
    [] sub = "already booked" ->
         msg \in {MsgSlotBooked, MsgNewSlotBooked}
    [] sub = "Access denied" ->
         msg = MsgAccessDenied
    [] OTHER -> FALSE

\* ------------------------------------------------ Appointment schema ----
ActiveStatuses == {"pending", "confirmed"}
Statuses == {"pending", "confirmed", "cancelled", "completed"}
CancelledByValues == {"user", "doctor", "admin"}

ApptFields == {"userId", "doctorId", "date", "time", "status", "reason",
               "consultationFee", "cancellationReason", "cancelledBy",
               "cancelledAt", "confirmedAt", "completedAt"}

\* the `trim: true` setter of the schema's String paths
trim(s) == IF s = " " THEN "" ELSE s

\* new Appointment({...}) charging the seeded fee whatever the doctor's is
NewAppointmentSeedFee(userId, doctorId, date, time, reason, fee) ==
  [userId |-> userId, doctorId |-> doctorId, date |-> date, time |-> time,
   status |-> "pending", reason |-> reason, consultationFee |-> 200,
   cancellationReason |-> NULL, cancelledBy |-> NULL, cancelledAt |-> NoDate,
   confirmedAt |-> NoDate, completedAt |-> NoDate]

\* new Appointment({...}) with the schema defaults
NewAppointment(userId, doctorId, date, time, reason, fee) ==
  [userId |-> userId, doctorId |-> doctorId, date |-> date, time |-> time,
   status |-> "pending", reason |-> reason, consultationFee |-> fee,
   cancellationReason |-> NULL, cancelledBy |-> NULL, cancelledAt |-> NoDate,
   confirmedAt |-> NoDate, completedAt |-> NoDate]

StoredIds == {i \in ApptIds : appts[i] # NoDoc}

\* virtual appointmentDateTime
appointmentDateTime(doc) ==
  LET parts == Split(doc.time, ":")
  IN  StartOfDay(doc.date) + Number(parts[1]) * 60 + Number(parts[2])

\* virtual isUpcoming
isUpcoming(doc, t) ==
  appointmentDateTime(doc) > t /\ doc.status \in {"pending", "confirmed"}

\* canBeCancelled without the 24-hour condition
canBeCancelledAnyTime(doc, t) == doc.status \in {"pending", "confirmed"}

\* virtual canBeCancelled: hoursDifference >= 24, in minutes
canBeCancelled(doc, t) ==
  /\ doc.status \in {"pending", "confirmed"}
  /\ appointmentDateTime(doc) - t >= 24 * 60

\* hasConflict without the status filter
hasConflictAnyStatus(store, doctorId, date, time, excludeId) ==
  {i \in ApptIds :
     /\ store[i] # NoDoc
     /\ store[i].doctorId = doctorId
     /\ store[i].date = date
     /\ store[i].time = time
     /\ i # excludeId}

\* hasConflict with excludeId ignored
hasConflictWithSelf(store, doctorId, date, time, excludeId) ==
  {i \in ApptIds :
     /\ store[i] # NoDoc
     /\ store[i].doctorId = doctorId
     /\ store[i].date = date
     /\ store[i].time = time
     /\ store[i].status \in {"pending", "confirmed"}}

\* statics.hasConflict: the documents findOne may return
hasConflict(store, doctorId, date, time, excludeId) ==
  {i \in ApptIds :
     /\ store[i] # NoDoc
     /\ store[i].doctorId = doctorId
     /\ store[i].date = date
     /\ store[i].time = time
     /\ store[i].status \in {"pending", "confirmed"}
     /\ i # excludeId}

\* the index declared without `unique: true`
UniqueIndexNotUnique(store) == TRUE

\* index { doctorId, date, time } unique, partial on status in
\* {pending, confirmed}: TRUE iff the store satisfies it
UniqueIndexOk(store) ==
  \A i, j \in ApptIds :
     ( /\ i # j
       /\ store[i] # NoDoc /\ store[j] # NoDoc
       /\ store[i].status \in {"pending", "confirmed"}
       /\ store[j].status \in {"pending", "confirmed"}
       /\ store[i].doctorId = store[j].doctorId
       /\ store[i].date = store[j].date )
     => store[i].time # store[j].time

\* isModified(path) of a loaded document
IsModified(doc, orig, f) == orig = NoDoc \/ doc[f] # orig[f]

\* the schema's validators, as run by validate() before the save hooks:
\* on every path of a new document and on every loaded or modified path of
\* a stored one, conditional `required` ones on every path without a value
SchemaValid(doc, orig, t) ==
  /\ doc.date >= StartOfDay(t)
  /\ TimeFormatOk(doc.time)
  /\ doc.reason \notin {NULL, ""}
  /\ doc.status \in Statuses
  /\ doc.cancelledBy \in CancelledByValues \cup {NULL}
  /\ doc.status = "cancelled" => doc.cancelledBy # NULL
  /\ doc.status = "cancelled" => doc.cancelledAt # NoDate
  /\ doc.status = "confirmed" => doc.confirmedAt # NoDate
  /\ doc.status = "completed" => doc.completedAt # NoDate

\* pre('save') hook
PreSave(doc, orig, t) ==
  IF ~IsModified(doc, orig, "status") THEN doc
  ELSE CASE doc.status = "confirmed" /\ doc.confirmedAt = NoDate ->
              [doc EXCEPT !.confirmedAt = t]
         [] doc.status = "cancelled" /\ doc.cancelledAt = NoDate ->
              [doc EXCEPT !.cancelledAt = t]
         [] doc.status = "completed" /\ doc.completedAt = NoDate ->
              [doc EXCEPT !.completedAt = t]
         [] OTHER -> doc

\* document.save(): validate, run the hook, then insert the new document or
\* $set the modified paths of the stored one; the unique index rejects a
\* write that would break it.  Result: the message thrown (MsgOk if none)
\* and the store afterwards.
Save(store, id, doc, orig, t) ==
  IF ~SchemaValid(doc, orig, t)
    THEN [msg |-> MsgSchemaInvalid, store |-> store]
    ELSE LET hooked  == PreSave(doc, orig, t)
             written == IF orig = NoDoc THEN hooked
                        ELSE [f \in ApptFields |->
                                IF IsModified(hooked, orig, f)
                                  THEN hooked[f] ELSE store[id][f]]
             after   == [store EXCEPT ![id] = written]
         IN  IF UniqueIndexOk(after)
               THEN [msg |-> MsgOk, store |-> after]
               ELSE [msg |-> MsgDuplicateKey, store |-> store]

\* ---------------------------------------------------- Doctor schema ----
\* the availability check with the slot's end included
isDoctorAvailableToEnd(doctor, date, time) ==
  \E k \in 1..Len(doctor.availability) :
     LET slot == doctor.availability[k]
     IN  /\ slot.day = DayOfWeek(date)
         /\ NumGe(parseTime(time), parseTime(slot.startTime))
         /\ ~NumLt(parseTime(slot.endTime), parseTime(time))

\* availability.some(slot => ...) of bookAppointment / rescheduleAppointment
isDoctorAvailable(doctor, date, time) ==
  LET dayOfWeek == DayOfWeek(date)
  IN  \E k \in 1..Len(doctor.availability) :
        LET slot == doctor.availability[k]
        IN  /\ slot.day = dayOfWeek
            /\ NumGe(parseTime(time), parseTime(slot.startTime))
            /\ NumLt(parseTime(time), parseTime(slot.endTime))

\* ---------------------------------------------------------- requests ----
Idle == [pc |-> "idle", op |-> NULL, userId |-> NULL, role |-> NULL,
         id |-> 0, doctorId |-> NULL, date |-> 0, time |-> <<>>,
         reason |-> NULL, status |-> NULL, cancelledBy |-> NULL,
         doc |-> NoDoc, orig |-> NoDoc, doctor |-> NoDoc, msg |-> NULL]

\* the request ends: the service returns (MsgOk) or throws m
Done(r, m) == [r EXCEPT !.pc = "done", !.msg = m]

\* no request ended in the last step
NoLast == [proc |-> "none", op |-> NULL, role |-> NULL, msg |-> NULL,
           id |-> 0, mail |-> "none"]

\* a notifier called whatever the outcome of the request
DispatchedAlways(x) ==
  CASE x.op = "book" -> "confirmation"
    [] x.op = "status" /\ x.status = "confirmed" -> "confirmation"
    [] x.op = "status" /\ x.status = "cancelled" -> "cancellation"
    [] x.op = "cancel" -> "cancellation"
    [] x.op = "reschedule" -> "confirmation"
    [] OTHER -> "none"

\* the notification the handler dispatches as its request ends as x:
\* emailService.sendAppointmentConfirmation / sendAppointmentCancellation is
\* called, and not awaited, on the line after await appointment.save(), so a
\* request that threw dispatches nothing
Dispatched(x) ==
  IF x.msg # MsgOk THEN "none"
  ELSE CASE x.op = "book" -> "confirmation"
         [] x.op = "status" /\ x.status = "confirmed" -> "confirmation"
         [] x.op = "status" /\ x.status = "cancelled" -> "cancellation"
         [] x.op = "cancel" -> "cancellation"
         [] x.op = "reschedule" -> "confirmation"
         [] OTHER -> "none"

\* process p moves to x; when the request ended, its outcome is recorded in
\* last and the process is free for the next request
Step(p, x) ==
  IF x.pc = "done"
    THEN /\ pcs' = [pcs EXCEPT ![p] = Idle]
         /\ last' = [proc |-> p, op |-> x.op, role |-> x.role,
                      msg |-> x.msg, id |-> x.id, mail |-> Dispatched(x)]
    ELSE /\ pcs' = [pcs EXCEPT ![p] = x]
         /\ last' = NoLast

\* a request reaches an idle process: routing and authentication are done,
\* the handler has not touched the database yet
Arrive(p, r) ==
  /\ pcs[p].pc = "idle"
  /\ served < MaxServed
  /\ served' = served + 1
  /\ pcs' = [pcs EXCEPT ![p] = r]
  /\ last' = NoLast
  /\ UNCHANGED <<doctors, appts, now>>

\* values requests are made with
ReqDates == {DateOf(1), DateOf(2)}
ReqTimes == {T1000, T1100}
Fee == 200

InitDoctors ==
  [d \in DoctorIds |->
     IF d = "d1"
       THEN [isActive |-> TRUE, consultationFee |-> Fee,
             availability |-> <<[day |-> "Monday", startTime |-> T0900,
                                 endTime |-> T1700],
                                [day |-> "Tuesday", startTime |-> T0900,
                                 endTime |-> T1100]>>]
       ELSE NoDoc]

\* instants the clock takes, in order
ClockValues == <<600, 601, 1500, 2900>>

Init ==
  /\ doctors = InitDoctors
  /\ appts = [i \in ApptIds |-> NoDoc]
  /\ now = ClockValues[1]
  /\ pcs = [p \in Procs |-> Idle]
  /\ last = NoLast
  /\ served = 0

\* time passes
Tick ==
  /\ \E k \in 1..(Len(ClockValues) - 1) :
        now = ClockValues[k] /\ now' = ClockValues[k + 1]
  /\ last' = NoLast
  /\ UNCHANGED <<doctors, appts, pcs, served>>

\* ---- bookAppointment (POST /appointments, authenticated) ----
PostAppointment(p, u, d, date, time) ==
  /\ Cardinality(StoredIds)
       + Cardinality({q \in Procs : pcs[q].op = "book"}) < MaxAppts
  /\ Arrive(p, [Idle EXCEPT !.pc = "book_load", !.op = "book", !.userId = u,
                            !.role = "user", !.doctorId = d, !.date = date,
                            !.time = time, !.reason = "r1"])

\* validateAppointment middleware on date and time
validateAppointment(date, time, t) ==
  date >= StartOfDay(t) /\ TimeFormatOk(time)

\* bookAppointment without the isActive check
BookLoadDoctorRetiredToo(p) ==
  /\ pcs[p].pc = "book_load"
  /\ LET r == pcs[p]
         doctor == doctors[r.doctorId]
     IN  Step(p,
           IF ~validateAppointment(r.date, r.time, now)
             THEN Done(r, MsgRequestInvalid)
           ELSE IF doctor = NoDoc THEN Done(r, MsgDoctorNotFound)
           ELSE IF ~isDoctorAvailable(doctor, r.date, r.time)
             THEN Done(r, MsgDoctorClosed)
           ELSE [r EXCEPT !.pc = "book_check", !.doctor = doctor])
  /\ UNCHANGED <<doctors, appts, now, served>>

\* request validation, await Doctor.findById, the isActive and availability
\* checks
BookLoadDoctor(p) ==
  /\ pcs[p].pc = "book_load"
  /\ LET r == pcs[p]
         doctor == doctors[r.doctorId]
     IN  Step(p,
           IF ~validateAppointment(r.date, r.time, now)
             THEN Done(r, MsgRequestInvalid)
           ELSE IF doctor = NoDoc THEN Done(r, MsgDoctorNotFound)
           ELSE IF ~doctor.isActive THEN Done(r, MsgDoctorInactive)
           ELSE IF ~isDoctorAvailable(doctor, r.date, r.time)
             THEN Done(r, MsgDoctorClosed)
           ELSE [r EXCEPT !.pc = "book_check", !.doctor = doctor])
  /\ UNCHANGED <<doctors, appts, now, served>>

\* await Appointment.hasConflict(doctorId, appointmentDate, time)
BookHasConflict(p) ==
  /\ pcs[p].pc = "book_check"
  /\ LET r == pcs[p]
     IN  Step(p,
           IF hasConflict(appts, r.doctorId, r.date, r.time, 0) # {}
             THEN Done(r, MsgSlotBooked)
             ELSE [r EXCEPT !.pc = "book_save"])
  /\ UNCHANGED <<doctors, appts, now, served>>

\* new Appointment({...}); await appointment.save()
BookSave(p) ==
  /\ pcs[p].pc = "book_save"
  /\ LET r   == pcs[p]
         id  == CHOOSE i \in ApptIds :
                  appts[i] = NoDoc /\ \A j \in 1..(i - 1) : appts[j] # NoDoc
         doc == NewAppointment(r.userId, r.doctorId, r.date, r.time,
                               r.reason, r.doctor.consultationFee)
         s   == Save(appts, id, doc, NoDoc, now)
     IN  /\ appts' = s.store
         /\ Step(p, Done([r EXCEPT !.id = IF s.msg = MsgOk THEN id ELSE 0],
                         s.msg))
  /\ UNCHANGED <<doctors, now, served>>

\* sendAppointmentConfirmation(...).then(() => { appointment.emailSent =
\* true; appointment.save() }): the document bookAppointment inserted is
\* saved again, whenever the mail is out, with no path of the appointment
\* modified but emailSent
EmailSentSave(i) ==
  /\ appts[i] # NoDoc
  /\ LET doc == NewAppointment(appts[i].userId, appts[i].doctorId,
                               appts[i].date, appts[i].time, appts[i].reason,
                               appts[i].consultationFee)
         s   == Save(appts, i, doc, doc, now)
     IN  /\ appts' = s.store
         /\ last' = [proc |-> "mailer", op |-> "emailSent", role |-> NULL,
                      msg |-> s.msg, id |-> i, mail |-> "none"]
  /\ UNCHANGED <<doctors, now, pcs, served>>

\* the promise of the notifier dispatched in the last step settles: the
\* mail went out (sent) or it did not (no transporter, or sendMail threw and
\* the notifier caught it); either way the promise resolves, so the .then of
\* bookAppointment saves the inserted document again and the .catch of the
\* other handlers never runs
NotifierSettles(sent) ==
  /\ last.mail # "none"
  /\ LET i   == last.id
         doc == NewAppointment(appts[i].userId, appts[i].doctorId,
                               appts[i].date, appts[i].time, appts[i].reason,
                               appts[i].consultationFee)
     IN  appts' = IF last.op = "book"
                    THEN Save(appts, i, doc, doc, now).store
                    ELSE appts
  /\ last' = [proc |-> "mailer",
               op |-> IF sent THEN "mailSent" ELSE "mailFailed",
               role |-> NULL, msg |-> NULL, id |-> last.id, mail |-> "none"]
  /\ UNCHANGED <<doctors, now, pcs, served>>

\* AppointmentController.bookAppointment: status code of the response
BookStatusCode(msg) ==
  IF msg = MsgOk THEN 201
  ELSE IF Includes(msg, "not found") THEN 404
  ELSE IF Includes(msg, "not available") \/ Includes(msg, "already booked")
    THEN 409
  ELSE 400

\* ---- updateAppointmentStatus (PATCH /:id/status, adminOnly) ----
PatchStatus(p, id, status, cancellationReason, cancelledBy) ==
  Arrive(p, [Idle EXCEPT !.pc = "upd_load", !.op = "status", !.userId = "a1",
                         !.role = "admin", !.id = id, !.status = status,
                         !.reason = cancellationReason,
                         !.cancelledBy = cancelledBy])

\* validateAppointmentStatus middleware
validateAppointmentStatus(status, cancellationReason, cancelledBy) ==
  /\ status \in {"pending", "confirmed", "cancelled", "completed"}
  /\ status = "cancelled" =>
       /\ cancellationReason \notin {NULL, ""}
       /\ cancelledBy \in {"user", "doctor", "admin"}

\* the table with re-entering the current status allowed
isValidStatusTransitionOrSame(currentStatus, newStatus) ==
  \/ <<currentStatus, newStatus>> \in
        {<<"pending", "confirmed">>, <<"pending", "cancelled">>,
         <<"confirmed", "completed">>, <<"confirmed", "cancelled">>}
  \/ currentStatus = newStatus

isValidStatusTransition(currentStatus, newStatus) ==
  LET validTransitions ==
        [pending   |-> {"confirmed", "cancelled"},
         confirmed |-> {"completed", "cancelled"},
         cancelled |-> {},
         completed |-> {}]
  IN  /\ currentStatus \in DOMAIN validTransitions
      /\ newStatus \in validTransitions[currentStatus]

\* the assignments, with confirmedAt cleared when the appointment completes
ApplyStatusForgetful(doc, status, cancellationReason, cancelledBy, t) ==
  LET d1 == [doc EXCEPT !.status = status]
  IN  CASE status = "confirmed" -> [d1 EXCEPT !.confirmedAt = t]
        [] status = "cancelled" ->
             [d1 EXCEPT !.cancellationReason = trim(cancellationReason),
                        !.cancelledBy = IF cancelledBy = NULL THEN "admin"
                                        ELSE cancelledBy,
                        !.cancelledAt = t]
        [] status = "completed" ->
             [d1 EXCEPT !.completedAt = t, !.confirmedAt = NoDate]
        [] OTHER -> d1

\* the assignments of updateAppointmentStatus to the loaded document
ApplyStatus(doc, status, cancellationReason, cancelledBy, t) ==
  LET d1 == [doc EXCEPT !.status = status]
  IN  CASE status = "confirmed" -> [d1 EXCEPT !.confirmedAt = t]
        [] status = "cancelled" ->
             [d1 EXCEPT !.cancellationReason = trim(cancellationReason),
                        !.cancelledBy = IF cancelledBy = NULL THEN "admin"
                                        ELSE cancelledBy,
                        !.cancelledAt = t]
        [] status = "completed" -> [d1 EXCEPT !.completedAt = t]
        [] OTHER -> d1

\* request validation, await Appointment.findById, the transition check and
\* the assignments, up to `await appointment.save()`
UpdLoad(p) ==
  /\ pcs[p].pc = "upd_load"
  /\ LET r == pcs[p]
         a == appts[r.id]
     IN  Step(p,
           IF ~validateAppointmentStatus(r.status, r.reason, r.cancelledBy)
             THEN Done(r, MsgRequestInvalid)
           ELSE IF a = NoDoc THEN Done(r, MsgApptNotFound)
           ELSE IF ~isValidStatusTransition(a.status, r.status)
             THEN Done(r, MsgBadTransition)
           ELSE [r EXCEPT !.pc = "upd_save", !.orig = a,
                          !.doc = ApplyStatus(a, r.status, r.reason,
                                              r.cancelledBy, now)])
  /\ UNCHANGED <<doctors, appts, now, served>>

\* await appointment.save() of a loaded document
SaveLoaded(p, at) ==
  /\ pcs[p].pc = at
  /\ LET r == pcs[p]
         s == Save(appts, r.id, r.doc, r.orig, now)
     IN  /\ appts' = s.store
         /\ Step(p, Done(r, s.msg))
  /\ UNCHANGED <<doctors, now, served>>

UpdSave(p) == SaveLoaded(p, "upd_save")

\* ---- cancelAppointment (PATCH /:id/cancel, authenticated) ----
PatchCancel(p, u, role, id, cancellationReason) ==
  Arrive(p, [Idle EXCEPT !.pc = "cancel_load", !.op = "cancel", !.userId = u,
                         !.role = role, !.id = id,
                         !.reason = cancellationReason])

\* cancelAppointment without the access check
CancelLoadAnyone(p) ==
  /\ pcs[p].pc = "cancel_load"
  /\ LET r == pcs[p]
         a == appts[r.id]
     IN  Step(p,
           IF a = NoDoc THEN Done(r, MsgApptNotFound)
           ELSE IF ~canBeCancelled(a, now) THEN Done(r, MsgCannotCancel)
           ELSE IF a.status \notin {"pending", "confirmed"}
             THEN Done(r, MsgOnlyActiveCancel)
           ELSE [r EXCEPT !.pc = "cancel_save", !.orig = a,
                          !.doc = [a EXCEPT
                             !.status = "cancelled",
                             !.cancellationReason = trim(r.reason),
                             !.cancelledBy = IF r.role = "admin" THEN "admin"
                                             ELSE "user"]])
  /\ UNCHANGED <<doctors, appts, now, served>>

\* await Appointment.findById, the access, canBeCancelled and status
\* checks and the assignments, up to `await appointment.save()`
CancelLoad(p) ==
  /\ pcs[p].pc = "cancel_load"
  /\ LET r == pcs[p]
         a == appts[r.id]
     IN  Step(p,
           IF a = NoDoc THEN Done(r, MsgApptNotFound)
           ELSE IF r.role # "admin" /\ a.userId # r.userId
             THEN Done(r, MsgAccessDenied)
           ELSE IF ~canBeCancelled(a, now) THEN Done(r, MsgCannotCancel)
           ELSE IF a.status \notin {"pending", "confirmed"}
             THEN Done(r, MsgOnlyActiveCancel)
           ELSE [r EXCEPT !.pc = "cancel_save", !.orig = a,
                          !.doc = [a EXCEPT
                             !.status = "cancelled",
                             !.cancellationReason = trim(r.reason),
                             !.cancelledBy = IF r.role = "admin" THEN "admin"
                                             ELSE "user"]])
  /\ UNCHANGED <<doctors, appts, now, served>>

CancelSave(p) == SaveLoaded(p, "cancel_save")

\* ---- rescheduleAppointment (PATCH /:id/reschedule, authenticated) ----
PatchReschedule(p, u, role, id, date, time, reason) ==
  Arrive(p, [Idle EXCEPT !.pc = "resch_load", !.op = "reschedule",
                         !.userId = u, !.role = role, !.id = id,
                         !.date = date, !.time = time, !.reason = reason])

\* rescheduleAppointment without the status check
ReschLoadAnyStatus(p) ==
  /\ pcs[p].pc = "resch_load"
  /\ LET r == pcs[p]
         a == appts[r.id]
     IN  Step(p,
           IF a = NoDoc THEN Done(r, MsgApptNotFound)
           ELSE IF r.role # "admin" /\ a.userId # r.userId
             THEN Done(r, MsgAccessDenied)
           ELSE [r EXCEPT !.pc = "resch_check", !.orig = a, !.doc = a,
                          !.doctorId = a.doctorId,
                          !.doctor = doctors[a.doctorId]])
  /\ UNCHANGED <<doctors, appts, now, served>>

\* await Appointment.findById(...).populate(...), the access and status
\* checks
ReschLoad(p) ==
  /\ pcs[p].pc = "resch_load"
  /\ LET r == pcs[p]
         a == appts[r.id]
     IN  Step(p,
           IF a = NoDoc THEN Done(r, MsgApptNotFound)
           ELSE IF r.role # "admin" /\ a.userId # r.userId
             THEN Done(r, MsgAccessDenied)
           ELSE IF a.status \notin {"pending", "confirmed"}
             THEN Done(r, MsgOnlyActiveResched)
           ELSE [r EXCEPT !.pc = "resch_check", !.orig = a, !.doc = a,
                          !.doctorId = a.doctorId,
                          !.doctor = doctors[a.doctorId]])
  /\ UNCHANGED <<doctors, appts, now, served>>

\* the reschedule also putting the appointment back to pending
ReschHasConflictToPending(p) ==
  /\ pcs[p].pc = "resch_check"
  /\ LET r == pcs[p]
     IN  Step(p,
           IF hasConflict(appts, r.doctorId, r.date, r.time, r.id) # {}
             THEN Done(r, MsgNewSlotBooked)
           ELSE IF ~isDoctorAvailable(r.doctor, r.date, r.time)
             THEN Done(r, MsgDoctorClosedNew)
           ELSE [r EXCEPT !.pc = "resch_save",
                          !.doc = [r.doc EXCEPT
                             !.date = r.date, !.time = r.time,
                             !.status = "pending"]])
  /\ UNCHANGED <<doctors, appts, now, served>>

\* await Appointment.hasConflict(..., appointmentId), the availability
\* check and the assignments, up to `await appointment.save()`
ReschHasConflict(p) ==
  /\ pcs[p].pc = "resch_check"
  /\ LET r == pcs[p]
     IN  Step(p,
           IF hasConflict(appts, r.doctorId, r.date, r.time, r.id) # {}
             THEN Done(r, MsgNewSlotBooked)
           ELSE IF ~isDoctorAvailable(r.doctor, r.date, r.time)
             THEN Done(r, MsgDoctorClosedNew)
           ELSE [r EXCEPT !.pc = "resch_save",
                          !.doc = [r.doc EXCEPT
                             !.date = r.date, !.time = r.time,
                             !.reason = IF r.reason \notin {NULL, ""}
                                          THEN trim(r.reason) ELSE @]])
  /\ UNCHANGED <<doctors, appts, now, served>>

ReschSave(p) == SaveLoaded(p, "resch_save")

\* ---- DoctorService.deleteDoctor (DELETE /doctors/:id, adminOnly) ----
DeleteDoctor(p, d) ==
  Arrive(p, [Idle EXCEPT !.pc = "del_count", !.op = "deleteDoctor",
                         !.userId = "a1", !.role = "admin", !.doctorId = d])

\* await Appointment.countDocuments({ doctorId, status: active, date >= now })
DelCount(p) ==
  /\ pcs[p].pc = "del_count"
  /\ LET r == pcs[p]
         activeAppointments ==
           Cardinality({i \in ApptIds :
                          /\ appts[i] # NoDoc
                          /\ appts[i].doctorId = r.doctorId
                          /\ appts[i].status \in {"pending", "confirmed"}
                          /\ appts[i].date >= now})
     IN  Step(p,
           IF activeAppointments > 0 THEN Done(r, MsgHasActive)
           ELSE [r EXCEPT !.pc = "del_update"])
  /\ UNCHANGED <<doctors, appts, now, served>>

\* await Doctor.findByIdAndUpdate(doctorId, { isActive: false })
DelUpdate(p) ==
  /\ pcs[p].pc = "del_update"
  /\ LET r == pcs[p]
     IN  IF doctors[r.doctorId] = NoDoc
           THEN /\ Step(p, Done(r, MsgDoctorNotFound))
                /\ UNCHANGED doctors
           ELSE /\ Step(p, [r EXCEPT !.pc = "del_many"])
                /\ doctors' = [doctors EXCEPT ![r.doctorId].isActive = FALSE]
  /\ UNCHANGED <<appts, now, served>>

\* updateMany without the status filter
DelManyAnyStatus(p) ==
  /\ pcs[p].pc = "del_many"
  /\ appts' = [i \in ApptIds |->
                 IF /\ appts[i] # NoDoc
                    /\ appts[i].doctorId = pcs[p].doctorId
                    /\ appts[i].date >= now
                   THEN [appts[i] EXCEPT
                           !.status = "cancelled",
                           !.cancellationReason = "Doctor no longer available",
                           !.cancelledBy = "admin",
                           !.cancelledAt = now]
                   ELSE appts[i]]
  /\ Step(p, Done(pcs[p], MsgOk))
  /\ UNCHANGED <<doctors, now, served>>

\* await Appointment.updateMany({ doctorId, status: 'pending', date >= now },
\*                              { status: 'cancelled', ... })
DelMany(p) ==
  /\ pcs[p].pc = "del_many"
  /\ LET r == pcs[p]
     IN  /\ appts' = [i \in ApptIds |->
                        IF /\ appts[i] # NoDoc
                           /\ appts[i].doctorId = r.doctorId
                           /\ appts[i].status = "pending"
                           /\ appts[i].date >= now
                          THEN [appts[i] EXCEPT
                                  !.status = "cancelled",
                                  !.cancellationReason =
                                     "Doctor no longer available",
                                  !.cancelledBy = "admin",
                                  !.cancelledAt = now]
                          ELSE appts[i]]
         /\ Step(p, Done(r, MsgOk))
  /\ UNCHANGED <<doctors, now, served>>

\* ---- DoctorService.createDoctor (POST /doctors) and updateDoctor ----
\* ---- (PUT /doctors/:id), both adminOnly behind validateDoctor ----
\* fees an update sets
FeeValues == {200, 250}

\* validateDoctor middleware on availability and consultationFee: at least
\* one slot, each with a day of the week and two HH:MM times; nothing
\* compares the two times
validateDoctor(data) ==
  /\ Len(data.availability) >= 1
  /\ \A k \in 1..Len(data.availability) :
        LET slot == data.availability[k]
        IN  /\ \E j \in 1..7 : slot.day = WeekDays[j]
            /\ TimeFormatOk(slot.startTime)
            /\ TimeFormatOk(slot.endTime)
  /\ data.consultationFee >= 0

\* Doctor.findOne({'contact.email'}), new Doctor(doctorData), save(): the
\* document doctorId stands for the doctor with that e-mail address; the
\* schema asks of availability what validateDoctor already asked
createDoctor(p, doctorId, doctorData) ==
  /\ pcs[p].pc = "idle"
  /\ served < MaxServed
  /\ served' = served + 1
  /\ LET msg == IF ~validateDoctor(doctorData) THEN MsgRequestInvalid
                ELSE IF doctors[doctorId] # NoDoc THEN MsgDoctorExists
                ELSE MsgOk
     IN  /\ doctors' =
               IF msg = MsgOk
                 THEN [doctors EXCEPT ![doctorId] =
                         [isActive |-> TRUE,
                          consultationFee |-> doctorData.consultationFee,
                          availability |-> doctorData.availability]]
                 ELSE doctors
         /\ last' = [proc |-> p, op |-> "createDoctor", role |-> "admin",
                      msg |-> msg, id |-> 0, mail |-> "none"]
  /\ UNCHANGED <<appts, now, pcs>>

\* await Doctor.findByIdAndUpdate(doctorId, allowedUpdates, {new: true,
\* runValidators: true}): one atomic write to the doctor's document
updateDoctor(p, doctorId, updateData) ==
  /\ pcs[p].pc = "idle"
  /\ served < MaxServed
  /\ served' = served + 1
  /\ LET msg == IF ~validateDoctor(updateData) THEN MsgRequestInvalid
                ELSE IF doctors[doctorId] = NoDoc THEN MsgDoctorNotFound
                ELSE MsgOk
     IN  /\ doctors' =
               IF msg = MsgOk
                 THEN [doctors EXCEPT
                         ![doctorId].consultationFee =
                            updateData.consultationFee,
                         ![doctorId].availability = updateData.availability]
                 ELSE doctors
         /\ last' = [proc |-> p, op |-> "updateDoctor", role |-> "admin",
                      msg |-> msg, id |-> 0, mail |-> "none"]
  /\ UNCHANGED <<appts, now, pcs>>

\* ------------------------------------------------------ the system ----
\* a request in progress resumes after an await
Resume(p) ==
  \/ BookLoadDoctor(p)
  \/ BookHasConflict(p)
  \/ BookSave(p)
  \/ UpdLoad(p)
  \/ UpdSave(p)
  \/ CancelLoad(p)
  \/ CancelSave(p)
  \/ ReschLoad(p)
  \/ ReschHasConflict(p)
  \/ ReschSave(p)
  \/ DelCount(p)
  \/ DelUpdate(p)
  \/ DelMany(p)

\* who makes a request: <<userId, role>>
Requesters == {<<"u1", "user">>, <<"u2", "user">>, <<"a1", "admin">>}

\* requests served concurrently: their steps interleave at every await
Next ==
  \E p \in Procs :
     \/ \E u \in Users, time \in ReqTimes :
           PostAppointment(p, u, "d1", DateOf(1), time)
     \/ \E id \in ApptIds, status \in {"confirmed", "cancelled", "completed"} :
           PatchStatus(p, id, status,
                       IF status = "cancelled" THEN "why" ELSE NULL,
                       IF status = "cancelled" THEN "doctor" ELSE NULL)
     \/ \E id \in ApptIds : PatchCancel(p, "a1", "admin", id, "why")
     \/ \E id \in ApptIds, time \in ReqTimes :
           PatchReschedule(p, "a1", "admin", id, DateOf(1), time, NULL)
     \/ DeleteDoctor(p, "d1")
     \/ Resume(p)

Spec == Init /\ [][Next]_vars

\* concurrent bookings only
NextBook ==
  \E p \in Procs :
     \/ \E u \in Users, d \in DoctorIds, date \in ReqDates, time \in ReqTimes :
           PostAppointment(p, u, d, date, time)
     \/ BookLoadDoctor(p)
     \/ BookHasConflict(p)
     \/ BookSave(p)

SpecBook == Init /\ [][NextBook]_vars

\* concurrent bookings and reschedules
NextResched ==
  \E p \in Procs :
     \/ \E u \in Users, date \in ReqDates, time \in ReqTimes :
           PostAppointment(p, u, "d1", date, time)
     \/ \E w \in Requesters, id \in ApptIds, date \in ReqDates,
           time \in ReqTimes :
           PatchReschedule(p, w[1], w[2], id, date, time, NULL)
     \/ BookLoadDoctor(p)
     \/ BookHasConflict(p)
     \/ BookSave(p)
     \/ ReschLoad(p)
     \/ ReschHasConflict(p)
     \/ ReschSave(p)

SpecResched == Init /\ [][NextResched]_vars

\* bookings served one at a time against every shape of weekly availability
AvailChoices ==
  {<<[day |-> WeekDays[k], startTime |-> T0900, endTime |-> T1700]>> :
      k \in 1..7}
  \cup
  {<<[day |-> "Monday", startTime |-> T0900, endTime |-> T1000],
     [day |-> "Monday", startTime |-> T1200, endTime |-> T1700]>>,
   <<[day |-> "Monday", startTime |-> T0900, endTime |-> T1700],
     [day |-> "Monday", startTime |-> T1200, endTime |-> T1700]>>}

AvailTimes == {T0859, T0900, T900, T1000, T1200, T1659, T1700}

InitAvail ==
  /\ \E av \in AvailChoices :
        doctors = [d \in DoctorIds |->
                     IF d = "d1"
                       THEN [isActive |-> TRUE, consultationFee |-> Fee,
                             availability |-> av]
                       ELSE NoDoc]
  /\ appts = [i \in ApptIds |-> NoDoc]
  /\ now = ClockValues[1]
  /\ pcs = [p \in Procs |-> Idle]
  /\ last = NoLast
  /\ served = 0

NextAvail ==
  \/ \E u \in Users, day \in 1..7, time \in AvailTimes :
        PostAppointment("p1", u, "d1", DateOf(day), time)
  \/ BookLoadDoctor("p1")
  \/ BookHasConflict("p1")
  \/ BookSave("p1")

SpecAvail == InitAvail /\ [][NextAvail]_vars

\* bookings and cancellations served one at a time, with every shape of
\* cancellation reason
CancelReasons == {NULL, "", " ", "why"}

NextReason ==
  \/ \E u \in Users, time \in ReqTimes :
        PostAppointment("p1", u, "d1", DateOf(1), time)
  \/ \E id \in ApptIds, cr \in CancelReasons,
        cb \in {NULL, "doctor"} :
        PatchStatus("p1", id, "cancelled", cr, cb)
  \/ \E id \in ApptIds : PatchStatus("p1", id, "confirmed", NULL, NULL)
  \/ \E w \in Requesters, id \in ApptIds, cr \in CancelReasons :
        PatchCancel("p1", w[1], w[2], id, cr)
  \/ BookLoadDoctor("p1")
  \/ BookHasConflict("p1")
  \/ BookSave("p1")
  \/ UpdLoad("p1")
  \/ UpdSave("p1")
  \/ CancelLoad("p1")
  \/ CancelSave("p1")

SpecReason == Init /\ [][NextReason]_vars

\* bookings, confirmations and reschedules served one at a time, with
\* every shape of new reason
NewReasons == {NULL, "", " ", "r2"}

NextMove ==
  \/ \E u \in Users, date \in ReqDates, time \in ReqTimes :
        PostAppointment("p1", u, "d1", date, time)
  \/ \E id \in ApptIds : PatchStatus("p1", id, "confirmed", NULL, NULL)
  \/ \E w \in Requesters, id \in ApptIds, date \in ReqDates,
        time \in ReqTimes, reason \in NewReasons :
        PatchReschedule("p1", w[1], w[2], id, date, time, reason)
  \/ BookLoadDoctor("p1")
  \/ BookHasConflict("p1")
  \/ BookSave("p1")
  \/ UpdLoad("p1")
  \/ UpdSave("p1")
  \/ ReschLoad("p1")
  \/ ReschHasConflict("p1")
  \/ ReschSave("p1")

SpecMove == Init /\ [][NextMove]_vars

\* bookings and fee updates served one at a time
NextFee ==
  \/ \E u \in Users, time \in ReqTimes :
        PostAppointment("p1", u, "d1", DateOf(1), time)
  \/ \E d \in DoctorIds, fee \in FeeValues :
        updateDoctor("p1", d, [consultationFee |-> fee,
                               availability |-> InitDoctors.d1.availability])
  \/ BookLoadDoctor("p1")
  \/ BookHasConflict("p1")
  \/ BookSave("p1")

SpecFee == Init /\ [][NextFee]_vars

\* doctors created and updated with every shape of availability, and
\* bookings, served one at a time
SlotChoices ==
  {<<>>,
   <<[day |-> "Monday", startTime |-> T0900, endTime |-> T1700]>>,
   <<[day |-> "Monday", startTime |-> T1000, endTime |-> T1100],
     [day |-> "Tuesday", startTime |-> T0900, endTime |-> T1100]>>,
   <<[day |-> "Monday", startTime |-> T1700, endTime |-> T0900]>>,
   <<[day |-> "Monday", startTime |-> T1000, endTime |-> T1000]>>,
   <<[day |-> "Monday", startTime |-> T0900, endTime |-> T2500]>>,
   <<[day |-> "Funday", startTime |-> T0900, endTime |-> T1700]>>}

NextDoctor ==
  \/ \E av \in SlotChoices :
        createDoctor("p1", "d2", [consultationFee |-> Fee,
                                  availability |-> av])
  \/ \E d \in DoctorIds, av \in SlotChoices :
        updateDoctor("p1", d, [consultationFee |-> Fee, availability |-> av])
  \/ \E d \in DoctorIds, time \in ReqTimes :
        PostAppointment("p1", "u1", d, DateOf(1), time)
  \/ BookLoadDoctor("p1")
  \/ BookHasConflict("p1")
  \/ BookSave("p1")

SpecDoctor == Init /\ [][NextDoctor]_vars

\* bookings and reschedules served one at a time, with well-formed and
\* malformed dates and times
BadDates == {DateOf(-1), DateOf(1)}
BadTimes == {T1000, T1100, T2500}

NextBad ==
  \/ \E date \in BadDates, time \in BadTimes :
        PostAppointment("p1", "u1", "d1", date, time)
  \/ \E id \in ApptIds, date \in BadDates, time \in BadTimes :
        PatchReschedule("p1", "u1", "user", id, date, time, NULL)
  \/ BookLoadDoctor("p1")
  \/ BookHasConflict("p1")
  \/ BookSave("p1")
  \/ ReschLoad("p1")
  \/ ReschHasConflict("p1")
  \/ ReschSave("p1")

SpecBad == Init /\ [][NextBad]_vars

\* bookings and reschedules served one at a time while an admin narrows and
\* widens the doctor's hours
HoursChoices ==
  {InitDoctors.d1.availability,
   <<[day |-> "Monday", startTime |-> T1000, endTime |-> T1100]>>}

NextHours ==
  \/ \E u \in Users, time \in ReqTimes :
        PostAppointment("p1", u, "d1", DateOf(1), time)
  \/ \E id \in ApptIds, time \in ReqTimes :
        PatchReschedule("p1", "a1", "admin", id, DateOf(1), time, NULL)
  \/ \E av \in HoursChoices :
        updateDoctor("p1", "d1", [consultationFee |-> Fee,
                                  availability |-> av])
  \/ BookLoadDoctor("p1")
  \/ BookHasConflict("p1")
  \/ BookSave("p1")
  \/ ReschLoad("p1")
  \/ ReschHasConflict("p1")
  \/ ReschSave("p1")

SpecHours == Init /\ [][NextHours]_vars

\* the four notifying operations served concurrently, every dispatched
\* notification settling either way
NextMail ==
  \/ \E p \in Procs :
        \/ \E time \in ReqTimes :
              PostAppointment(p, "u1", "d1", DateOf(1), time)
        \/ \E id \in ApptIds,
              status \in {"confirmed", "cancelled", "completed"} :
              PatchStatus(p, id, status,
                          IF status = "cancelled" THEN "why" ELSE NULL,
                          IF status = "cancelled" THEN "doctor" ELSE NULL)
        \/ \E id \in ApptIds : PatchCancel(p, "u1", "user", id, "why")
        \/ \E id \in ApptIds, time \in ReqTimes :
              PatchReschedule(p, "u1", "user", id, DateOf(1), time, NULL)
        \/ BookLoadDoctor(p)
        \/ BookHasConflict(p)
        \/ BookSave(p)
        \/ UpdLoad(p)
        \/ UpdSave(p)
        \/ CancelLoad(p)
        \/ CancelSave(p)
        \/ ReschLoad(p)
        \/ ReschHasConflict(p)
        \/ ReschSave(p)
  \/ \E sent \in BOOLEAN : NotifierSettles(sent)

SpecMail == Init /\ [][NextMail]_vars

\* the lifecycle of appointments, requests served one at a time, the clock
\* running and the mailer saving behind them
NextStamp ==
  \/ Tick
  \/ \E time \in ReqTimes : PostAppointment("p1", "u1", "d1", DateOf(1), time)
  \/ \E id \in ApptIds, status \in {"confirmed", "cancelled", "completed"} :
        PatchStatus("p1", id, status,
                    IF status = "cancelled" THEN "why" ELSE NULL,
                    IF status = "cancelled" THEN "doctor" ELSE NULL)
  \/ \E id \in ApptIds : PatchCancel("p1", "u1", "user", id, "why")
  \/ \E id \in ApptIds, date \in ReqDates, time \in ReqTimes :
        PatchReschedule("p1", "a1", "admin", id, date, time, NULL)
  \/ DeleteDoctor("p1", "d1")
  \/ \E i \in ApptIds : EmailSentSave(i)
  \/ Resume("p1")

SpecStamp == Init /\ [][NextStamp]_vars

\* requests served one at a time, the clock running
NextSeq ==
  \/ Tick
  \/ \E u \in Users, d \in DoctorIds, date \in ReqDates, time \in ReqTimes :
        PostAppointment("p1", u, d, date, time)
  \/ \E id \in ApptIds, status \in Statuses :
        \E cr \in IF status = "cancelled" THEN {"", "why"} ELSE {NULL} :
           PatchStatus("p1", id, status, cr,
                       IF status = "cancelled" THEN "doctor" ELSE NULL)
  \/ \E w \in Requesters, id \in ApptIds, cr \in {NULL, "why"} :
        PatchCancel("p1", w[1], w[2], id, cr)
  \/ \E w \in Requesters, id \in ApptIds, date \in ReqDates,
        time \in ReqTimes :
        PatchReschedule("p1", w[1], w[2], id, date, time, NULL)
  \/ \E d \in DoctorIds : DeleteDoctor("p1", d)
  \/ Resume("p1")

SpecSeq == Init /\ [][NextSeq]_vars

\* ============================================================ claims ====
\* the active appointments of the store on a slot
ActiveOn(store, doctorId, date, time) ==
  {i \in ApptIds : /\ store[i] # NoDoc
                   /\ store[i].status \in ActiveStatuses
                   /\ store[i].doctorId = doctorId
                   /\ store[i].date = date
                   /\ store[i].time = time}

\* process p ends its request in this step
Ends(p) == pcs[p].pc # "idle" /\ pcs'[p].pc = "idle"

\* C1: in every reachable state, whatever the interleaving of the requests,
\* at most one appointment with status pending or confirmed exists for any
\* (doctor, date, time).
C1_AtMostOneActivePerSlot ==
  \A d \in DoctorIds, date \in ReqDates, time \in ReqTimes :
     Cardinality(ActiveOn(appts, d, date, time)) <= 1

\* a booking passed the advisory check and was rejected by the index
C1_Witness ==
  /\ last.op = "book"
  /\ last.msg = MsgDuplicateKey
  /\ StoredIds # {}

\* C2: when two bookings by different users for the same open, free slot of
\* an active doctor have both passed the advisory check before either
\* inserts, the first insert succeeds and the second is rejected, so exactly
\* one of the two succeeds.
C2_ExactlyOneInsertWins ==
  [][\A p, q \in Procs :
       ( /\ p # q
         /\ pcs[p].pc = "book_save" /\ pcs[q].pc = "book_save"
         /\ pcs[p].userId # pcs[q].userId
         /\ pcs[p].doctorId = pcs[q].doctorId
         /\ pcs[p].date = pcs[q].date
         /\ pcs[p].time = pcs[q].time
         /\ Ends(p) )
       => IF ActiveOn(appts, pcs[p].doctorId, pcs[p].date, pcs[p].time) = {}
            \* the first of the two inserts
            THEN /\ last'.msg = MsgOk
                 /\ Cardinality(ActiveOn(appts', pcs[p].doctorId, pcs[p].date,
                                         pcs[p].time)) = 1
                 /\ pcs'[q].pc = "book_save"
            ELSE FALSE
     ]_vars
  /\
  [][\A q \in Procs :
       ( /\ pcs[q].pc = "book_save"
         /\ ActiveOn(appts, pcs[q].doctorId, pcs[q].date, pcs[q].time) # {}
         /\ Ends(q) )
       \* the second of the two inserts
       => last'.msg # MsgOk /\ appts' = appts
     ]_vars

\* one insert of a race went through, the other was rejected
C2_Witness ==
  /\ last.op = "book"
  /\ last.msg = MsgDuplicateKey
  /\ Cardinality(StoredIds) = 1
  /\ \A p \in Procs : pcs[p].pc = "idle"

\* C3 (as claimed): a booking whose insert the unique index rejects is
\* answered like one the advisory check rejects, with the message
\* "Time slot is already booked" and status 409.
C3_StorageConflictIsSlotTaken ==
  [][\A p \in Procs :
       ( /\ pcs[p].pc = "book_save"
         /\ ActiveOn(appts, pcs[p].doctorId, pcs[p].date, pcs[p].time) # {}
         /\ Ends(p) )
       => /\ last'.msg = MsgSlotBooked
          /\ BookStatusCode(last'.msg) = BookStatusCode(MsgSlotBooked)
     ]_vars

\* C4 (as claimed): under any interleaving of reschedules and bookings no
\* two active appointments share a (doctor, date, time), and a reschedule
\* whose requested slot is held by another active appointment fails and
\* leaves the moved appointment at its old date and time.
C4_RescheduleKeepsSlotsExclusive ==
  /\ [](\A i, j \in StoredIds :
          ( /\ i # j
            /\ appts[i].status \in ActiveStatuses
            /\ appts[j].status \in ActiveStatuses
            /\ appts[i].doctorId = appts[j].doctorId
            /\ appts[i].date = appts[j].date )
          => appts[i].time # appts[j].time)
  /\ [][\A p \in Procs :
          ( /\ pcs[p].op = "reschedule"
            /\ pcs[p].pc \in {"resch_check", "resch_save"}
            /\ Ends(p)
            /\ ActiveOn(appts, pcs[p].doctorId, pcs[p].date, pcs[p].time)
                 \ {pcs[p].id} # {} )
          => /\ last'.msg # MsgOk
             /\ appts'[pcs[p].id].date = appts[pcs[p].id].date
             /\ appts'[pcs[p].id].time = appts[pcs[p].id].time
       ]_vars

\* process p takes a step of its request
Moves(p) == pcs'[p] # pcs[p]

\* minutes since midnight a time string stands for
MinuteOfDay(time) ==
  CASE time = T0859 -> 8 * 60 + 59
    [] time = T0900 -> 9 * 60
    [] time = T900  -> 9 * 60
    [] time = T1000 -> 10 * 60
    [] time = T1100 -> 11 * 60
    [] time = T1200 -> 12 * 60
    [] time = T1659 -> 16 * 60 + 59
    [] time = T1700 -> 17 * 60

\* weekday of the k-th day after day 0
WeekdayOfDay ==
  [k \in 1..7 |-> CASE k = 1 -> "Monday"   [] k = 2 -> "Tuesday"
                    [] k = 3 -> "Wednesday" [] k = 4 -> "Thursday"
                    [] k = 5 -> "Friday"    [] k = 6 -> "Saturday"
                    [] k = 7 -> "Sunday"]

\* minutes from instant t to the appointment's date and time
LeadMinutes(a, t) == a.date + MinuteOfDay(a.time) - t

\* the transition table of the lifecycle
TransitionTable ==
  {<<"pending", "confirmed">>, <<"pending", "cancelled">>,
   <<"confirmed", "completed">>, <<"confirmed", "cancelled">>}

\* C5: for every (current, requested) pair, updateAppointmentStatus succeeds
\* iff the pair is in the transition table; any other pair fails with the
\* invalid-transition error and leaves the store unchanged.
C5_TransitionTable ==
  [][\A p \in Procs :
       /\ ( /\ pcs[p].pc = "upd_load"
            /\ Moves(p)
            /\ appts[pcs[p].id] # NoDoc
            /\ pcs[p].status = "cancelled" => pcs[p].reason \notin {NULL, ""} )
          => IF <<appts[pcs[p].id].status, pcs[p].status>> \in TransitionTable
               THEN pcs'[p].pc = "upd_save"
               ELSE last'.msg = MsgBadTransition /\ appts' = appts
       /\ ( pcs[p].pc = "upd_save" /\ Ends(p) )
          => /\ last'.msg = MsgOk
             /\ appts'[pcs[p].id].status = pcs[p].status
             /\ \A i \in ApptIds \ {pcs[p].id} : appts'[i] = appts[i]
     ]_vars

\* a transition was refused after an appointment went all the way to completed
C5_Witness ==
  /\ last.op = "status"
  /\ last.msg = MsgBadTransition
  /\ \E i \in StoredIds : appts[i].status = "completed"

\* C6: once an appointment's stored status is cancelled or completed, no
\* sequence of status updates, cancels, reschedules, bookings or doctor
\* deletions changes that status.
C6_TerminalStatusStays ==
  [][\A i \in ApptIds :
       (appts[i] # NoDoc /\ appts[i].status \in {"cancelled", "completed"})
       => (appts'[i] # NoDoc /\ appts'[i].status = appts[i].status)
     ]_vars

\* a request on a cancelled or completed appointment was refused
C6_Witness ==
  /\ last.op \in {"status", "cancel", "reschedule"}
  /\ last.msg \in {MsgBadTransition, MsgCannotCancel, MsgOnlyActiveResched}
  /\ appts[last.id] # NoDoc
  /\ appts[last.id].status \in {"cancelled", "completed"}

\* C7: for an existing active doctor, a booking fails as unavailable when no
\* availability slot has the date's weekday and start <= time < end (in
\* minutes), and succeeds, the slot being free, when some slot has.
C7_AvailabilityGate ==
  [][\A p \in Procs :
       LET r == pcs[p]
           covered ==
             \E k \in 1..Len(doctors[r.doctorId].availability) :
                LET slot == doctors[r.doctorId].availability[k]
                IN  /\ slot.day = WeekdayOfDay[r.date \div MinutesPerDay]
                    /\ MinuteOfDay(slot.startTime) <= MinuteOfDay(r.time)
                    /\ MinuteOfDay(r.time) < MinuteOfDay(slot.endTime)
           free == ActiveOn(appts, r.doctorId, r.date, r.time) = {}
       IN  /\ ( /\ r.pc = "book_load" /\ Moves(p)
                /\ doctors[r.doctorId] # NoDoc
                /\ doctors[r.doctorId].isActive )
              => IF covered THEN pcs'[p].pc = "book_check"
                 ELSE last'.msg = MsgDoctorClosed /\ appts' = appts
           /\ (r.pc = "book_check" /\ Moves(p) /\ free)
              => pcs'[p].pc = "book_save"
           /\ (r.pc = "book_save" /\ Moves(p) /\ free)
              => /\ last'.msg = MsgOk
                 /\ ActiveOn(appts', r.doctorId, r.date, r.time) = {last'.id}
     ]_vars

\* a booking at a slot's start was accepted and one outside was refused
C7_Witness ==
  /\ last.op = "book"
  /\ last.msg = MsgDoctorClosed
  /\ \E i \in StoredIds : appts[i].time = T0900

\* C8 (as claimed): a cancel by the owner of a pending or confirmed
\* appointment succeeds when the appointment is 1440 minutes or more away,
\* and fails with the cannot-cancel error, nothing changed, when it is 1439
\* minutes or less away.
C8_OwnerCancelWindow ==
  [][\A p \in Procs :
       LET r == pcs[p]
           a == appts[r.id]
       IN  ( /\ r.op = "cancel" /\ r.role = "user"
             /\ a # NoDoc
             /\ a.userId = r.userId
             /\ a.status \in ActiveStatuses )
           => /\ (r.pc = "cancel_load" /\ Moves(p))
                 => IF LeadMinutes(a, now) >= 1440
                      THEN pcs'[p].pc = "cancel_save"
                      ELSE last'.msg = MsgCannotCancel /\ appts' = appts
              /\ (r.pc = "cancel_save" /\ Ends(p))
                 => last'.msg = MsgOk /\ appts'[r.id].status = "cancelled"
     ]_vars

\* C9 (as claimed): no request made with the admin role moves an
\* appointment that is less than 24 hours away into status cancelled.
C9_NoAdminCancelInsideWindow ==
  [][\A p \in Procs, i \in ApptIds :
       ( /\ Moves(p)
         /\ pcs[p].role = "admin"
         /\ appts[i] # NoDoc
         /\ appts[i].status # "cancelled"
         /\ appts'[i].status = "cancelled" )
       => LeadMinutes(appts[i], now) >= 1440
     ]_vars

\* C9 (amended): cancelAppointment applies the 24-hour rule to admins as to
\* users: made with the admin role on an appointment less than 24 hours
\* away, it fails with the cannot-cancel error and changes nothing.
C9_AdminCancelAppointmentWindow ==
  [][\A p \in Procs :
       ( /\ pcs[p].op = "cancel"
         /\ pcs[p].role = "admin"
         /\ pcs[p].pc = "cancel_load"
         /\ Moves(p)
         /\ appts[pcs[p].id] # NoDoc
         /\ LeadMinutes(appts[pcs[p].id], now) < 1440 )
       => last'.msg = MsgCannotCancel /\ appts' = appts
     ]_vars

\* an admin's cancel of an active appointment inside the window was refused
C9_Witness ==
  /\ last.op = "cancel"
  /\ last.role = "admin"
  /\ last.msg = MsgCannotCancel
  /\ appts[last.id] # NoDoc
  /\ appts[last.id].status \in ActiveStatuses
  /\ LeadMinutes(appts[last.id], now) = 1439

\* C10 (as claimed): a cancel by the owner or an admin of a pending or
\* confirmed appointment at least 24 hours away, with a non-empty reason,
\* succeeds and stores status cancelled, cancelledAt, the reason, and
\* cancelledBy admin for an admin and user otherwise.
C10_CancelStoresCancellation ==
  [][\A p \in Procs :
       LET r == pcs[p]
           a == appts[r.id]
       IN  ( /\ r.op = "cancel"
             /\ r.reason \notin {NULL, ""}
             /\ a # NoDoc
             /\ r.role = "admin" \/ a.userId = r.userId
             /\ a.status \in ActiveStatuses )
           => /\ (r.pc = "cancel_load" /\ Moves(p)
                    /\ LeadMinutes(a, now) >= 1440)
                 => pcs'[p].pc = "cancel_save"
              /\ (r.pc = "cancel_save" /\ Ends(p))
                 => /\ last'.msg = MsgOk
                    /\ appts'[r.id].status = "cancelled"
                    /\ appts'[r.id].cancelledAt # NoDate
                    /\ appts'[r.id].cancellationReason = r.reason
                    /\ appts'[r.id].cancelledBy =
                         IF r.role = "admin" THEN "admin" ELSE "user"
     ]_vars

\* C11 (as claimed): an attempt to cancel without a reason fails and
\* leaves the appointment unchanged, so every stored appointment with status
\* cancelled has a non-empty cancellationReason.
C11_CancelledHasReason ==
  \A i \in StoredIds :
     appts[i].status = "cancelled" =>
        appts[i].cancellationReason \notin {NULL, ""}

\* C12: a cancelAppointment or rescheduleAppointment call whose requester
\* is neither the appointment's owner nor an admin fails with the
\* access-denied error and leaves every appointment unchanged, whatever the
\* appointment's state and the requested slot.
C12_OnlyOwnerOrAdmin ==
  [][\A p \in Procs :
       ( /\ pcs[p].pc \in {"cancel_load", "resch_load"}
         /\ Moves(p)
         /\ appts[pcs[p].id] # NoDoc
         /\ pcs[p].role # "admin"
         /\ appts[pcs[p].id].userId # pcs[p].userId )
       => /\ Ends(p)
          /\ last'.msg = MsgAccessDenied
          /\ appts' = appts
     ]_vars

\* a stranger's reschedule of a completed appointment was denied
C12_Witness ==
  /\ last.op = "reschedule"
  /\ last.role = "user"
  /\ last.msg = MsgAccessDenied
  /\ appts[last.id] # NoDoc
  /\ appts[last.id].status = "completed"

\* C13: rescheduleAppointment by the owner or an admin on a cancelled or
\* completed appointment fails with the only-pending-or-confirmed error and
\* leaves date, time, reason and status unchanged.
C13_RescheduleNeedsActive ==
  [][\A p \in Procs :
       ( /\ pcs[p].pc = "resch_load"
         /\ Moves(p)
         /\ appts[pcs[p].id] # NoDoc
         /\ pcs[p].role = "admin" \/ appts[pcs[p].id].userId = pcs[p].userId
         /\ appts[pcs[p].id].status \in {"cancelled", "completed"} )
       => /\ Ends(p)
          /\ last'.msg = MsgOnlyActiveResched
          /\ appts' = appts
     ]_vars

\* the owner's reschedule of a cancelled appointment was refused
C13_Witness ==
  /\ last.op = "reschedule"
  /\ last.role = "user"
  /\ last.msg = MsgOnlyActiveResched
  /\ appts[last.id] # NoDoc
  /\ appts[last.id].status = "cancelled"

\* some availability slot of the doctor covers (date, time)
Covers(doctor, date, time) ==
  \E k \in 1..Len(doctor.availability) :
     LET slot == doctor.availability[k]
     IN  /\ slot.day = WeekdayOfDay[date \div MinutesPerDay]
         /\ MinuteOfDay(slot.startTime) <= MinuteOfDay(time)
         /\ MinuteOfDay(time) < MinuteOfDay(slot.endTime)

\* midnight of the day instant t lies in
Midnight(t) == (t \div MinutesPerDay) * MinutesPerDay

\* a reschedule by the owner or an admin of an active appointment onto the
\* slot it occupies passes every step and stores the same date, time and
\* status; with fromToday, only appointments dated today or later are meant
SameSlotReschedule(fromToday) ==
  \A p \in Procs :
     LET r == pcs[p]
         a == appts[r.id]
     IN  ( /\ r.op = "reschedule"
           /\ a # NoDoc
           /\ r.role = "admin" \/ a.userId = r.userId
           /\ a.status \in ActiveStatuses
           /\ r.date = a.date /\ r.time = a.time
           /\ Covers(doctors[a.doctorId], a.date, a.time)
           /\ fromToday => a.date >= Midnight(now) )
         => /\ (r.pc = "resch_load" /\ Moves(p))
               => pcs'[p].pc = "resch_check"
            /\ (r.pc = "resch_check" /\ Moves(p))
               => pcs'[p].pc = "resch_save"
            /\ (r.pc = "resch_save" /\ Moves(p))
               => /\ last'.msg = MsgOk
                  /\ appts'[r.id].date = a.date
                  /\ appts'[r.id].time = a.time
                  /\ appts'[r.id].status = a.status

\* C14 (as claimed): rescheduling a pending or confirmed appointment to the
\* date and time it already occupies succeeds, provided the doctor's
\* availability covers the slot; date, time and status stay the same.
C14_SameSlotSucceeds == [][SameSlotReschedule(FALSE)]_vars

\* C14 (amended): the same, for an appointment whose date is today or later.
C14_SameSlotSucceedsFromToday == [][SameSlotReschedule(TRUE)]_vars

\* a reschedule onto the appointment's own slot passed the conflict check
C14_Witness ==
  \E p \in Procs :
     /\ pcs[p].op = "reschedule"
     /\ pcs[p].pc = "resch_save"
     /\ appts[pcs[p].id] # NoDoc
     /\ appts[pcs[p].id].status \in ActiveStatuses
     /\ pcs[p].date = appts[pcs[p].id].date
     /\ pcs[p].time = appts[pcs[p].id].time

\* C15: a successful rescheduleAppointment changes only the appointment's
\* date and time, and its reason when one is supplied: owner, doctor,
\* status, consultationFee, confirmedAt and the cancellation fields are
\* unchanged, and no other appointment and no doctor is changed.
C15_RescheduleFrame ==
  [][\A p \in Procs :
       LET r == pcs[p]
       IN  (r.pc = "resch_save" /\ Ends(p) /\ last'.msg = MsgOk)
           => /\ \A f \in ApptFields \ {"date", "time", "reason"} :
                    appts'[r.id][f] = appts[r.id][f]
              /\ appts'[r.id].date = r.date
              /\ appts'[r.id].time = r.time
              /\ appts'[r.id].reason =
                   IF r.reason \in {NULL, ""} THEN appts[r.id].reason
                   ELSE r.reason
              /\ \A i \in ApptIds \ {r.id} : appts'[i] = appts[i]
              /\ doctors' = doctors
     ]_vars

\* a confirmed appointment was rescheduled with a new reason
C15_Witness ==
  /\ last.op = "reschedule"
  /\ last.msg = MsgOk
  /\ appts[last.id].status = "confirmed"
  /\ appts[last.id].confirmedAt # NoDate
  /\ appts[last.id].reason = "r2"

\* C16: bookAppointment fails with the doctor-not-found error (404) when
\* the doctor does not exist and with the doctor-is-not-available error (409)
\* when the doctor exists but is inactive, whatever the requested date and
\* time the route lets through, and creates no appointment.
C16_DoctorMustExistAndBeActive ==
  [][\A p \in Procs :
       LET r == pcs[p]
       IN  ( /\ r.pc = "book_load"
             /\ Moves(p)
             /\ r.date >= Midnight(now) )
           => /\ doctors[r.doctorId] = NoDoc
                 => /\ last'.msg = MsgDoctorNotFound
                    /\ BookStatusCode(last'.msg) = 404
                    /\ appts' = appts
              /\ (doctors[r.doctorId] # NoDoc /\ ~doctors[r.doctorId].isActive)
                 => /\ last'.msg = MsgDoctorInactive
                    /\ BookStatusCode(last'.msg) = 409
                    /\ appts' = appts
     ]_vars

\* a booking with a retired doctor was refused
C16_Witness ==
  /\ last.op = "book"
  /\ last.msg = MsgDoctorInactive
  /\ \E d \in DoctorIds : doctors[d] # NoDoc /\ ~doctors[d].isActive

\* C17: a successful bookAppointment creates exactly one appointment, with
\* status pending and consultationFee equal to the doctor's fee at that
\* time, and changes no other; a later updateDoctor that changes the
\* doctor's fee leaves every existing appointment unchanged.
C17_FeeSnapshot ==
  [][ /\ \A p \in Procs :
           (pcs[p].pc = "book_save" /\ Ends(p) /\ last'.msg = MsgOk)
           => LET created == {i \in ApptIds :
                                appts[i] = NoDoc /\ appts'[i] # NoDoc}
              IN  /\ Cardinality(created) = 1
                  /\ \A i \in created :
                        /\ appts'[i].status = "pending"
                        /\ appts'[i].consultationFee =
                             doctors[pcs[p].doctorId].consultationFee
                  /\ \A i \in StoredIds : appts'[i] = appts[i]
      /\ doctors' # doctors => appts' = appts
    ]_vars

\* the doctor's fee was changed after a booking, which keeps the old fee
C17_Witness ==
  /\ last.op = "updateDoctor"
  /\ last.msg = MsgOk
  /\ \E i \in StoredIds :
        appts[i].consultationFee # doctors[appts[i].doctorId].consultationFee

\* C18: cancelled and completed appointments do not occupy their slot: a
\* bookAppointment or rescheduleAppointment onto a (doctor, date, time) on
\* which no other appointment is pending or confirmed is never rejected as
\* slot taken, neither by the conflict check nor by the index.
C18_TerminalFreesSlot ==
  [][\A p \in Procs :
       LET r == pcs[p]
           others == ActiveOn(appts, r.doctorId, r.date, r.time) \ {r.id}
       IN  ( /\ r.pc \in {"book_check", "book_save", "resch_check",
                          "resch_save"}
             /\ Ends(p)
             /\ others = {} )
           => last'.msg \notin {MsgSlotBooked, MsgNewSlotBooked,
                                MsgDuplicateKey}
     ]_vars

\* a slot left by a cancelled or completed appointment was booked again
C18_Witness ==
  /\ last.op \in {"book", "reschedule"}
  /\ last.msg = MsgOk
  /\ \E i \in StoredIds \ {last.id} :
        /\ appts[i].status \in {"cancelled", "completed"}
        /\ appts[i].doctorId = appts[last.id].doctorId
        /\ appts[i].date = appts[last.id].date
        /\ appts[i].time = appts[last.id].time

\* C19 (as claimed): deleteDoctor fails with the has-active-appointments
\* error, leaving the doctor and every appointment unchanged, whenever the
\* doctor has a pending or confirmed appointment whose date and time are in
\* the future, later on the current day included; with no such appointment
\* it goes on to mark the doctor inactive.
C19_DeleteNeedsNoFutureActive ==
  [][\A p \in Procs :
       LET r == pcs[p]
           futureActive ==
             {i \in StoredIds :
                /\ appts[i].doctorId = r.doctorId
                /\ appts[i].status \in ActiveStatuses
                /\ LeadMinutes(appts[i], now) > 0}
       IN  ( /\ r.pc = "del_count" /\ Moves(p) )
           => IF futureActive # {}
                THEN /\ last'.msg = MsgHasActive
                     /\ appts' = appts
                     /\ doctors' = doctors
                ELSE pcs'[p].pc = "del_update"
     ]_vars

\* the timestamp that goes with a status
StampOf(status) ==
  CASE status = "confirmed" -> "confirmedAt"
    [] status = "cancelled" -> "cancelledAt"
    [] status = "completed" -> "completedAt"

\* C20: each of confirmedAt, cancelledAt and completedAt is set exactly
\* once: the step that moves an appointment into confirmed, cancelled or
\* completed stamps the corresponding field, and no later step of any
\* operation (status update, cancel, reschedule, doctor deletion, the save
\* after the mail) changes a timestamp that is set.
C20_TimestampsSetOnce ==
  [][\A i \in StoredIds :
       /\ \A f \in {"confirmedAt", "cancelledAt", "completedAt"} :
             appts[i][f] # NoDate => appts'[i][f] = appts[i][f]
       /\ ( /\ appts'[i].status # appts[i].status
            /\ appts'[i].status # "pending" )
          => /\ appts[i][StampOf(appts'[i].status)] = NoDate
             /\ appts'[i][StampOf(appts'[i].status)] # NoDate
             /\ appts'[i][StampOf(appts'[i].status)] <= now
     ]_vars

\* a completed appointment keeps the confirmedAt of an earlier instant,
\* after the mailer's save
C20_Witness ==
  /\ last.op = "emailSent"
  /\ \E i \in StoredIds :
        /\ appts[i].status = "completed"
        /\ appts[i].confirmedAt # NoDate
        /\ appts[i].completedAt > appts[i].confirmedAt

\* C21: in every reachable state of the store, cancellationReason,
\* cancelledBy and cancelledAt are populated only on cancelled appointments,
\* confirmedAt never on a pending one, completedAt only on completed ones;
\* every cancelled appointment has cancelledBy and cancelledAt, every
\* confirmed one confirmedAt, every completed one confirmedAt and
\* completedAt.
C21_FieldsFollowStatus ==
  \A i \in StoredIds :
     LET a == appts[i]
     IN  /\ a.status # "cancelled" =>
              /\ a.cancellationReason = NULL
              /\ a.cancelledBy = NULL
              /\ a.cancelledAt = NoDate
         /\ a.confirmedAt # NoDate => a.status # "pending"
         /\ a.completedAt # NoDate => a.status = "completed"
         /\ a.status = "cancelled" =>
              a.cancelledBy # NULL /\ a.cancelledAt # NoDate
         /\ a.status = "confirmed" => a.confirmedAt # NoDate
         /\ a.status = "completed" =>
              a.confirmedAt # NoDate /\ a.completedAt # NoDate

\* C22: a notification is dispatched only by a request that succeeded, in
\* the step in which its write is in the store (the inserted appointment,
\* the new status, the date and time it changed), and the settling of the
\* notifier, whether the mail went out or not, changes no stored
\* appointment, no doctor and no request
C22_NotifierApart ==
  [][ /\ last'.mail # "none" =>
           /\ last'.msg = MsgOk
           /\ appts'[last'.id] # NoDoc
           /\ last'.op = "book" =>
                 appts[last'.id] = NoDoc /\ appts'[last'.id].status = "pending"
           /\ last'.op = "status" =>
                 appts'[last'.id].status
                   = (IF last'.mail = "confirmation" THEN "confirmed"
                      ELSE "cancelled")
           /\ last'.op = "cancel" => appts'[last'.id].status = "cancelled"
           /\ last'.op = "reschedule" =>
                 \E q \in Procs :
                    /\ pcs[q].op = "reschedule" /\ pcs'[q] = Idle
                    /\ pcs[q].date # pcs[q].orig.date =>
                          appts'[last'.id].date = pcs[q].date
                    /\ pcs[q].time # pcs[q].orig.time =>
                          appts'[last'.id].time = pcs[q].time
      /\ last'.proc = "mailer" =>
           appts' = appts /\ doctors' = doctors /\ pcs' = pcs ]_vars

\* the notifier failed after a cancellation and after a reschedule, and
\* the appointment is as the operation left it
C22_Witness ==
  /\ last.proc = "mailer" /\ last.op = "mailFailed"
  /\ appts[last.id].status = "cancelled"
  /\ appts[last.id].time # T1000

\* C23: every step that changes a stored status to confirmed dispatches a
\* confirmation for that appointment, every step that changes it to
\* cancelled dispatches a cancellation for it, and a step that changes it
\* to completed dispatches nothing
C23_TransitionsNotify ==
  [][\A i \in ApptIds :
        (/\ appts[i] # NoDoc
         /\ appts'[i] # NoDoc
         /\ appts'[i].status # appts[i].status)
        => CASE appts'[i].status = "confirmed" ->
                  last'.mail = "confirmation" /\ last'.id = i
             [] appts'[i].status = "cancelled" ->
                  last'.mail = "cancellation" /\ last'.id = i
             [] OTHER -> last'.mail = "none"]_vars

\* C24: every stored doctor has at least one availability slot, and every
\* slot starts strictly before it ends
C24_SlotsWellFormed ==
  \A d \in DoctorIds :
     doctors[d] # NoDoc =>
       /\ Len(doctors[d].availability) >= 1
       /\ \A k \in 1..Len(doctors[d].availability) :
             NumLt(parseTime(doctors[d].availability[k].startTime),
                   parseTime(doctors[d].availability[k].endTime))

\* C25: a booking or a reschedule whose time is not an HH:MM string or
\* whose date is before today fails, is not reported as the doctor being
\* unavailable or the slot being taken, and changes no stored appointment
C25_MalformedIsValidationError ==
  [][\A p \in Procs :
        (/\ Ends(p)
         /\ pcs[p].op \in {"book", "reschedule"}
         /\ ~validateAppointment(pcs[p].date, pcs[p].time, now))
        => /\ last'.msg \notin {MsgOk, MsgDoctorInactive, MsgDoctorClosed,
                                 MsgDoctorClosedNew, MsgSlotBooked,
                                 MsgNewSlotBooked, MsgDuplicateKey}
           /\ appts' = appts]_vars

\* C26: whatever the interleaving of the requests, every change of a stored
\* status is one of pending->confirmed, pending->cancelled,
\* confirmed->completed, confirmed->cancelled, so a stored cancelled or
\* completed is never overwritten
C26_StoredChangesInTable ==
  [][\A i \in ApptIds :
        (/\ appts[i] # NoDoc
         /\ appts'[i] # NoDoc
         /\ appts'[i].status # appts[i].status)
        => <<appts[i].status, appts'[i].status>> \in TransitionTable]_vars

\* C27: whenever no deleteDoctor is in progress, no inactive doctor has a
\* pending or confirmed appointment dated today or later
C27_RetiredHasNoActive ==
  (\A p \in Procs : pcs[p].op # "deleteDoctor")
  => \A i \in StoredIds :
        (appts[i].status \in ActiveStatuses /\ appts[i].date >= StartOfDay(now))
        => doctors[appts[i].doctorId].isActive

\* C28: a booking or a reschedule that reaches the slot check with a
\* (date, time) outside every availability slot of the doctor and held by
\* another active appointment fails with the unavailability error
C28_UnavailableBeforeTaken ==
  [][\A p \in Procs :
        LET r == pcs[p]
        IN  /\ (/\ r.pc = "book_load"
                /\ Moves(p)
                /\ validateAppointment(r.date, r.time, now)
                /\ doctors[r.doctorId] # NoDoc
                /\ doctors[r.doctorId].isActive
                /\ ~isDoctorAvailable(doctors[r.doctorId], r.date, r.time)
                /\ hasConflict(appts, r.doctorId, r.date, r.time, 0) # {})
               => last'.msg = MsgDoctorClosed
            /\ (/\ r.pc = "resch_check"
                /\ Moves(p)
                /\ ~isDoctorAvailable(r.doctor, r.date, r.time)
                /\ hasConflict(appts, r.doctorId, r.date, r.time, r.id) # {})
               => last'.msg = MsgDoctorClosedNew]_vars

\* C29: whatever the interleaving of the requests, no step changes the date
\* or the time of an appointment whose stored status is cancelled or
\* completed
C29_TerminalSlotFrozen ==
  [][\A i \in ApptIds :
        (appts[i] # NoDoc /\ appts[i].status \in {"cancelled", "completed"})
        => /\ appts'[i] # NoDoc
           /\ appts'[i].date = appts[i].date
           /\ appts'[i].time = appts[i].time]_vars

\* C30: a booking or a reschedule that ends while the doctor is inactive
\* leaves no pending or confirmed appointment of that doctor on a (date,
\* time) that the same appointment did not already occupy
C30_RetiredGainsNoSlot ==
  [][\A p \in Procs, i \in ApptIds :
        (/\ Ends(p)
         /\ pcs[p].op \in {"book", "reschedule"}
         /\ appts'[i] # NoDoc
         /\ appts'[i].status \in ActiveStatuses
         /\ doctors[appts'[i].doctorId] # NoDoc
         /\ ~doctors[appts'[i].doctorId].isActive)
        => /\ appts[i] # NoDoc
           /\ appts[i].status \in ActiveStatuses
           /\ appts[i].date = appts'[i].date
           /\ appts[i].time = appts'[i].time]_vars

====
